---- MODULE Spec2Model ----
(***************************************************************************)
(* Model of shodan_busqueda.py: query construction (build_query), the      *)
(* paginated download with de-duplication (fetch_all / add_batch) and the  *)
(* orchestration and reporting done by main.                               *)
(*                                                                         *)
(* Python str values are sequences of one-character strings.  Loosely      *)
(* typed JSON values are records [t, i, s] tagged "none", "int" or "str".  *)
(***************************************************************************)
EXTENDS Integers, Sequences, FiniteSets, TLC

(* ------------------------------ bounds --------------------------------- *)
MaxPageLen == 2
MaxTotal == 5
MaxResultsBound == 3
MaxStrLen == 4

(* --------------------------- Python values ----------------------------- *)
PyNone == [t |-> "none", i |-> 0, s |-> <<>>]
PyInt(n) == [t |-> "int", i |-> n, s |-> <<>>]
PyStr(str) == [t |-> "str", i |-> 0, s |-> str]

Truthy(v) ==
  CASE v.t = "none" -> FALSE
    [] v.t = "int" -> v.i # 0
    [] OTHER -> v.s # <<>>

PyOr(a, b) == IF Truthy(a) THEN a ELSE b

Digit(d) ==
  CASE d = 0 -> "0" [] d = 1 -> "1" [] d = 2 -> "2" [] d = 3 -> "3"
    [] d = 4 -> "4" [] d = 5 -> "5" [] d = 6 -> "6" [] d = 7 -> "7"
    [] d = 8 -> "8" [] OTHER -> "9"

RECURSIVE NatToStr(_)
NatToStr(n) ==
  IF n < 10 THEN <<Digit(n)>> ELSE Append(NatToStr(n \div 10), Digit(n % 10))

ToStr(v) ==
  CASE v.t = "none" -> <<"N", "o", "n", "e">>
    [] v.t = "int" -> IF v.i < 0 THEN <<"-">> \o NatToStr(-v.i) ELSE NatToStr(v.i)
    [] OTHER -> v.s

(* ------------------------------ strings -------------------------------- *)
LowerChar(c) ==
  CASE c = "O" -> "o" [] c = "R" -> "r" [] c = "G" -> "g" [] c = "T" -> "t"
    [] c = "N" -> "n" [] OTHER -> c

Lower(str) == [k \in 1..Len(str) |-> LowerChar(str[k])]

Contains(str, sub) ==
  \E k \in 0..(Len(str) - Len(sub)) : SubSeq(str, k + 1, k + Len(sub)) = sub

IsSpace(c) == c \in {" ", "\t", "\n"}

RECURSIVE LStrip(_)
LStrip(str) ==
  IF str # <<>> /\ IsSpace(Head(str)) THEN LStrip(Tail(str)) ELSE str

RECURSIVE RStrip(_)
RStrip(str) ==
  IF str # <<>> /\ IsSpace(str[Len(str)])
  THEN RStrip(SubSeq(str, 1, Len(str) - 1)) ELSE str

Strip(str) == RStrip(LStrip(str))

(* -------------------------- configuration ------------------------------ *)
PROHIBITED_KEYWORDS == {<<"o", "r", "g", ":">>}
CountryGT == <<"c", "o", "u", "n", "t", "r", "y", ":", "G", "T">>
CityOpen == <<" ", "c", "i", "t", "y", ":", "\"">>
CityClose == <<"\"">>

VARIABLES CITY_FILTER, ADDITIONAL_FILTERS, MAX_RESULTS,
          pc, final_query, stdout, stderr,
          matches, seen, page, total_reported, facets_obj, results,
          log, arrivals

vars == <<CITY_FILTER, ADDITIONAL_FILTERS, MAX_RESULTS,
          pc, final_query, stdout, stderr,
          matches, seen, page, total_reported, facets_obj, results,
          log, arrivals>>

config == <<CITY_FILTER, ADDITIONAL_FILTERS, MAX_RESULTS>>
fetchState == <<matches, seen, page, total_reported, facets_obj, results, log, arrivals>>

(* ----------------------------- build_query ----------------------------- *)
build_query_nolower(city, additional) ==
  LET base == IF Truthy(city) THEN CountryGT \o CityOpen \o city.s \o CityClose
              ELSE CountryGT
  IN IF additional # <<>>
     THEN IF \E x \in PROHIBITED_KEYWORDS : Contains(additional, x)
          THEN [raised |-> TRUE, value |-> <<>>]
          ELSE [raised |-> FALSE, value |-> Strip(base \o <<" ">> \o additional)]
     ELSE [raised |-> FALSE, value |-> Strip(base)]

build_query(city, additional) ==
  LET base == IF Truthy(city) THEN CountryGT \o CityOpen \o city.s \o CityClose
              ELSE CountryGT
  IN IF additional # <<>>
     THEN LET low == Lower(additional)
          IN IF \E x \in PROHIBITED_KEYWORDS : Contains(low, x)
             THEN [raised |-> TRUE, value |-> <<>>]
             ELSE [raised |-> FALSE, value |-> Strip(base \o <<" ">> \o additional)]
     ELSE [raised |-> FALSE, value |-> Strip(base)]

(* ------------------------------ fetch_all ------------------------------ *)
Key(m) ==
  LET ip == PyOr(m.ip_str, m.ip)
      port == m.port
  IN <<ToStr(ip), IF port.t # "none" THEN port.i ELSE -1>>

RECURSIVE add_batch_noseen(_, _, _, _)
add_batch_noseen(batch, ms, sn, added) ==
  IF batch = <<>> THEN [matches |-> ms, seen |-> sn, added |-> added]
  ELSE LET m == Head(batch)
           key == Key(m)
       IN IF key \notin sn
          THEN add_batch_noseen(Tail(batch), Append(ms, m), sn, added + 1)
          ELSE add_batch_noseen(Tail(batch), ms, sn, added)

RECURSIVE add_batch_countall(_, _, _, _)
add_batch_countall(batch, ms, sn, added) ==
  IF batch = <<>> THEN [matches |-> ms, seen |-> sn, added |-> added]
  ELSE LET m == Head(batch)
           key == Key(m)
       IN IF key \notin sn
          THEN add_batch_countall(Tail(batch), Append(ms, m), sn \cup {key}, added + 1)
          ELSE add_batch_countall(Tail(batch), ms, sn, added + 1)

RECURSIVE add_batch(_, _, _, _)
add_batch(batch, ms, sn, added) ==
  IF batch = <<>> THEN [matches |-> ms, seen |-> sn, added |-> added]
  ELSE LET m == Head(batch)
           key == Key(m)
       IN IF key \notin sn
          THEN add_batch(Tail(batch), Append(ms, m), sn \cup {key}, added + 1)
          ELSE add_batch(Tail(batch), ms, sn, added)

LoopCondMaxOnly(n, max_results, total) == n < max_results

LoopCondEither(n, max_results, total) == n < max_results \/ n < total

LoopCond(n, max_results, total) == n < max_results /\ n < total

Min(a, b) == IF a < b THEN a ELSE b
Max(a, b) == IF a > b THEN a ELSE b

SliceOffByOne(s, n) == SubSeq(s, 1, Min(n + 1, Len(s)))

Slice(s, n) ==
  IF n >= 0 THEN SubSeq(s, 1, Min(n, Len(s)))
  ELSE SubSeq(s, 1, Max(0, Len(s) + n))

(* ------------------------ the API's responses -------------------------- *)
IpStrs == {PyNone, PyStr(<<"1">>)}
Ips == {PyInt(1), PyInt(2)}
Ports == {PyNone, PyInt(80)}
(* ip_str, when the API sends it, is the text of ip *)
Match == {m \in [ip_str : IpStrs, ip : Ips, port : Ports] :
            m.ip_str.t = "str" => m.ip_str.s = ToStr(m.ip)}

Batches == UNION {[1..n -> Match] : n \in 0..MaxPageLen}
Totals == 0..MaxTotal
(* FACETS = "" : the request carries no facets parameter *)
FacetValues == {"none"}

(* --------------------- observation of the traffic ---------------------- *)
IdentityKey(m) ==
  <<IF m.ip_str.t = "str" /\ m.ip_str.s # <<>> THEN m.ip_str.s
    ELSE IF m.ip.t = "int" THEN ToStr(m.ip) ELSE ToStr(m.ip_str),
    IF m.port.t = "int" THEN m.port.i ELSE -1>>

KeysOf(s) == {IdentityKey(s[k]) : k \in 1..Len(s)}

FirstIdx(batch, known) ==
  {k \in 1..Len(batch) :
      /\ IdentityKey(batch[k]) \notin known
      /\ \A j \in 1..(k - 1) : IdentityKey(batch[j]) # IdentityKey(batch[k])}

RECURSIVE Pick(_, _, _)
Pick(batch, idx, k) ==
  IF k > Len(batch) THEN <<>>
  ELSE (IF k \in idx THEN <<batch[k]>> ELSE <<>>) \o Pick(batch, idx, k + 1)

FirstSeen(batch, known) == Pick(batch, FirstIdx(batch, known), 1)

Observe(pg, status, batch) ==
  LET fresh == Cardinality(KeysOf(batch) \ KeysOf(arrivals))
  IN [page |-> pg, status |-> status, fresh |-> fresh,
      repeats |-> Len(batch) > fresh, before |-> Len(arrivals)]

(* ------------------------------- Init ---------------------------------- *)
OrgVariants ==
  {<<a, b, c, ":">> : a \in {"o", "O"}, b \in {"r", "R"}, c \in {"g", "G"}}
Affixes == {<<>>, <<" ">>, <<"p">>, <<"p", " ">>}
ProhibitedFilters == {a \o t \o b : a \in Affixes, t \in OrgVariants, b \in Affixes}
RunFilters == {<<>>} \cup ProhibitedFilters

Alphabet == {"o", "O", "r", "g", ":", " "}
Strings == UNION {[1..n -> Alphabet] : n \in 0..MaxStrLen}
CityInputs == {PyNone, PyStr(<<>>), PyStr(<<"G">>),
               PyStr(<<"o", "r", "g", ":">>), PyStr(<<"x", "\"", " ", "O", "r", "g", ":">>)}

InitRun ==
  /\ pc = "build_query"
  /\ final_query = <<>>
  /\ stdout = <<>>
  /\ stderr = <<>>
  /\ matches = <<>>
  /\ seen = {}
  /\ page = 1
  /\ total_reported = 0
  /\ facets_obj = "none"
  /\ results = <<>>
  /\ log = <<>>
  /\ arrivals = <<>>

Init ==
  /\ CITY_FILTER = PyNone
  /\ ADDITIONAL_FILTERS \in RunFilters
  /\ MAX_RESULTS \in 0..MaxResultsBound
  /\ InitRun

InitQuery ==
  /\ CITY_FILTER \in CityInputs
  /\ ADDITIONAL_FILTERS \in Strings
  /\ MAX_RESULTS = MaxResultsBound
  /\ InitRun

(* ------------------------------ actions -------------------------------- *)
MainBuildQuery ==
  /\ pc = "build_query"
  /\ LET q == build_query(CITY_FILTER, ADDITIONAL_FILTERS)
     IN IF q.raised
        THEN /\ pc' = "exit"
             /\ stderr' = Append(stderr, "prohibited")
             /\ UNCHANGED final_query
        ELSE /\ pc' = "print_banner"
             /\ final_query' = q.value
             /\ UNCHANGED stderr
  /\ UNCHANGED <<config, stdout, fetchState>>

PrintBanner ==
  /\ pc = "print_banner"
  /\ stdout' = Append(stdout, "banner")
  /\ pc' = "fetch_first"
  /\ UNCHANGED <<config, final_query, stderr, fetchState>>

FetchFirstOk ==
  /\ pc = "fetch_first"
  /\ \E total \in Totals, batch \in Batches, fac \in FacetValues :
       LET r == add_batch(batch, matches, seen, 0)
       IN /\ total_reported' = total
          /\ facets_obj' = fac
          /\ matches' = r.matches
          /\ seen' = r.seen
          /\ log' = Append(log, Observe(page, "ok", batch))
          /\ arrivals' = arrivals \o FirstSeen(batch, KeysOf(arrivals))
  /\ pc' = "loop"
  /\ UNCHANGED <<config, final_query, stdout, stderr, page, results>>

FetchFirstHttpError ==
  /\ pc = "fetch_first"
  /\ log' = Append(log, Observe(page, "http_error", <<>>))
  /\ stderr' = Append(stderr, "error_http")
  /\ pc' = "exit"
  /\ UNCHANGED <<config, final_query, stdout, matches, seen, page,
                 total_reported, facets_obj, results, arrivals>>

FetchFirstTransportError ==
  /\ pc = "fetch_first"
  /\ log' = Append(log, Observe(page, "transport_error", <<>>))
  /\ stderr' = Append(stderr, "traceback")
  /\ pc' = "crashed"
  /\ UNCHANGED <<config, final_query, stdout, matches, seen, page,
                 total_reported, facets_obj, results, arrivals>>

LoopExit ==
  /\ pc = "loop"
  /\ ~LoopCond(Len(matches), MAX_RESULTS, total_reported)
  /\ results' = Slice(matches, MAX_RESULTS)
  /\ pc' = "report"
  /\ UNCHANGED <<config, final_query, stdout, stderr, matches, seen, page,
                 total_reported, facets_obj, log, arrivals>>

FetchNextOk ==
  /\ pc = "loop"
  /\ LoopCond(Len(matches), MAX_RESULTS, total_reported)
  /\ page' = page + 1
  /\ \E batch \in Batches :
       /\ log' = Append(log, Observe(page + 1, "ok", batch))
       /\ arrivals' = arrivals \o FirstSeen(batch, KeysOf(arrivals))
       /\ IF batch = <<>>
          THEN /\ results' = Slice(matches, MAX_RESULTS)
               /\ pc' = "report"
               /\ UNCHANGED <<matches, seen>>
          ELSE LET r == add_batch(batch, matches, seen, 0)
               IN /\ matches' = r.matches
                  /\ seen' = r.seen
                  /\ IF r.added = 0
                     THEN /\ results' = Slice(r.matches, MAX_RESULTS)
                          /\ pc' = "report"
                     ELSE /\ pc' = "loop"
                          /\ UNCHANGED results
  /\ UNCHANGED <<config, final_query, stdout, stderr, total_reported, facets_obj>>

FetchNextHttpError ==
  /\ pc = "loop"
  /\ LoopCond(Len(matches), MAX_RESULTS, total_reported)
  /\ page' = page + 1
  /\ log' = Append(log, Observe(page + 1, "http_error", <<>>))
  /\ stderr' = Append(stderr, "warning")
  /\ results' = Slice(matches, MAX_RESULTS)
  /\ pc' = "report"
  /\ UNCHANGED <<config, final_query, stdout, matches, seen,
                 total_reported, facets_obj, arrivals>>

FetchNextTransportError ==
  /\ pc = "loop"
  /\ LoopCond(Len(matches), MAX_RESULTS, total_reported)
  /\ page' = page + 1
  /\ log' = Append(log, Observe(page + 1, "transport_error", <<>>))
  /\ stderr' = Append(stderr, "traceback")
  /\ pc' = "crashed"
  /\ UNCHANGED <<config, final_query, stdout, matches, seen,
                 total_reported, facets_obj, results, arrivals>>

MainReport ==
  /\ pc = "report"
  /\ stdout' = stdout \o <<"totals">>
                 \o (IF facets_obj # "none" THEN <<"facets">> ELSE <<>>)
                 \o (IF results = <<>> THEN <<"no_results">> ELSE <<"table">>)
                 \o <<"summary">>
  /\ pc' = "done"
  /\ UNCHANGED <<config, final_query, stderr, fetchState>>

Next ==
  \/ MainBuildQuery
  \/ PrintBanner
  \/ FetchFirstOk
  \/ FetchFirstHttpError
  \/ FetchFirstTransportError
  \/ LoopExit
  \/ FetchNextOk
  \/ FetchNextHttpError
  \/ FetchNextTransportError
  \/ MainReport

NextQuery ==
  \/ MainBuildQuery
  \/ PrintBanner

Spec == Init /\ [][Next]_vars
FairSpec == Init /\ [][Next]_vars /\ WF_vars(Next)
SpecQuery == InitQuery /\ [][NextQuery]_vars

Terminated == pc \in {"done", "exit", "crashed"}

(* ------------------------------ claims --------------------------------- *)
Returned == pc \in {"report", "done"}

MentionsOrg(str) ==
  \E k \in 1..(Len(str) - 3) :
     /\ str[k] \in {"o", "O"}
     /\ str[k + 1] \in {"r", "R"}
     /\ str[k + 2] \in {"g", "G"}
     /\ str[k + 3] = ":"

(* C1: the list returned by fetch_all holds no two matches with the same   *)
(* identity key (str(address), int(port) or -1), and its matches stand in  *)
(* the order in which their keys were first seen across pages 1, 2, 3, ... *)
C1_UniqueInFirstSeenOrder ==
  Returned =>
    /\ \A a, b \in 1..Len(results) :
         a # b => IdentityKey(results[a]) # IdentityKey(results[b])
    /\ Len(results) <= Len(arrivals)
    /\ results = SubSeq(arrivals, 1, Len(results))

C1_Witness ==
  /\ pc = "done"
  /\ Len(results) >= 3
  /\ Len(log) >= 2
  /\ \E k \in 1..Len(log) : log[k].fresh >= 1 /\ log[k].repeats

(* C2 as stated: as soon as any fetched page contributes zero previously   *)
(* unseen identity keys, no page with a higher number is fetched.          *)
C2_Original ==
  \A k \in 1..Len(log) :
     (log[k].status = "ok" /\ log[k].fresh = 0) => k = Len(log)

(* C2 amended: as soon as a fetched page numbered 2 or higher contributes  *)
(* zero previously unseen identity keys, no page with a higher number is   *)
(* fetched and the accumulated set keeps the size it had before that page. *)
C2_StopAfterStalePage ==
  \A k \in 1..Len(log) :
     (log[k].page >= 2 /\ log[k].status = "ok" /\ log[k].fresh = 0) =>
        /\ k = Len(log)
        /\ Returned
        /\ Len(matches) = log[k].before

C2_Witness ==
  /\ pc = "done"
  /\ Len(log) = 2
  /\ log[2].status = "ok"
  /\ log[2].repeats
  /\ log[2].fresh = 0
  /\ Len(matches) = log[1].fresh
  /\ log[1].fresh >= 1

(* C3: whenever the accumulated unique matches number at least max_results *)
(* fetch_all returns exactly the first max_results of them in accumulation *)
(* order (total_reported = 5, max_results = 3 gives exactly 3 entries).    *)
C3_TruncatedToMax ==
  (Returned /\ Len(arrivals) >= MAX_RESULTS) =>
     results = SubSeq(arrivals, 1, MAX_RESULTS)

C3_Witness ==
  /\ pc = "done"
  /\ total_reported = 5
  /\ MAX_RESULTS = 3
  /\ Len(log) >= 2
  /\ Len(arrivals) > 3
  /\ Len(results) = 3

(* C4 as stated: the number of matches returned is at most max_results and *)
(* at most total_reported, whatever the pages carry.                       *)
C4_Original ==
  Returned => (Len(results) <= MAX_RESULTS /\ Len(results) <= total_reported)

(* C4 amended: the number of matches returned is at most max_results, and  *)
(* at most total_reported whenever the fetched pages carry between them no *)
(* more than total_reported distinct identity keys.                        *)
C4_BoundedByMax ==
  Returned =>
    /\ Len(results) <= MAX_RESULTS
    /\ (Cardinality(KeysOf(arrivals)) <= total_reported
          => Len(results) <= total_reported)

C4_Witness ==
  /\ pc = "done"
  /\ Len(log) >= 2
  /\ Len(results) = MAX_RESULTS
  /\ Len(arrivals) > MAX_RESULTS
  /\ Len(arrivals) <= total_reported

(* C5: a page numbered 2 or higher is fetched only when the accumulated    *)
(* unique-match count at that moment is strictly below both max_results    *)
(* and total_reported; with total_reported = 0 and an empty first page the *)
(* result is empty and no second page is fetched.                          *)
C5_FetchOnlyBelowBothLimits ==
  /\ \A k \in 1..Len(log) :
        log[k].page >= 2 =>
           (log[k].before < MAX_RESULTS /\ log[k].before < total_reported)
  /\ (Len(log) >= 1 /\ log[1].status = "ok" /\ log[1].fresh = 0 /\ ~log[1].repeats
        /\ total_reported = 0)
       => (Len(log) = 1 /\ results = <<>>)

C5_Witness ==
  /\ pc = "done"
  /\ Len(log) = 3
  /\ log[3].status = "ok"
  /\ log[3].before = MAX_RESULTS - 1
  /\ total_reported > MAX_RESULTS

(* C6: any failure (transport failure or non-success HTTP status) of a     *)
(* fetch of page 2 or later is recoverable: a warning goes to the error    *)
(* stream, no further page is fetched, fetch_all returns the matches of    *)
(* the earlier pages and the run goes on to print the report.              *)
C6_LaterFailureRecoverable ==
  \A k \in 1..Len(log) :
     (log[k].page >= 2 /\ log[k].status # "ok") =>
        /\ k = Len(log)
        /\ \E w \in 1..Len(stderr) : stderr[w] = "warning"
        /\ Returned
        /\ results = SubSeq(arrivals, 1, Min(MAX_RESULTS, Len(arrivals)))

(* C7: when the fetch of page 1 raises a fatal transport error the run     *)
(* ends with no report output at all: no banner, facet listing, match      *)
(* table or summary has been printed.                                      *)
C7_NoOutputOnFirstPageFailure ==
  (Len(log) >= 1 /\ log[1].status = "transport_error") => stdout = <<>>

(* C8: when the additional-filter text contains a prohibited term, in any  *)
(* letter case and at any position, build_query fails fatally and the run  *)
(* ends before any HTTP request is issued.                                 *)
C8_ProhibitedStopsBeforeNetwork ==
  MentionsOrg(ADDITIONAL_FILTERS) =>
     /\ pc \in {"build_query", "exit"}
     /\ log = <<>>
     /\ stdout = <<>>

C8_Witness ==
  /\ pc = "exit"
  /\ log = <<>>
  /\ MentionsOrg(ADDITIONAL_FILTERS)
  /\ ADDITIONAL_FILTERS # Lower(ADDITIONAL_FILTERS)
  /\ Head(ADDITIONAL_FILTERS) = "p"

(* C9: whatever the locality filter and the additional-filter text are,    *)
(* a query that build_query returns contains no "org:" in any letter case. *)
C9_QueryFreeOfProhibited ==
  pc \in {"print_banner", "fetch_first"} => ~MentionsOrg(final_query)

(* C10: the fetch loop terminates: pages are requested as 1, 2, 3, ...     *)
(* with no number requested twice, every iteration that does not stop the  *)
(* loop strictly increases the accumulated unique-match count, at most     *)
(* min(max_results, total_reported) pages beyond the first are fetched,    *)
(* and every run reaches its end.                                          *)
C10_Progress ==
  /\ \A k \in 1..Len(log) : log[k].page = k
  /\ \A k \in 2..(Len(log) - 1) : log[k + 1].before > log[k].before
  /\ Len(log) <= 1 + Min(MAX_RESULTS, total_reported)

C10_LoopTerminates == []C10_Progress /\ <>Terminated

C10_Witness ==
  /\ pc = "done"
  /\ MAX_RESULTS = MaxResultsBound
  /\ Len(log) = 1 + Min(MAX_RESULTS, total_reported)
  /\ \A k \in 1..Len(log) : log[k].status = "ok"
====
